---- MODULE Spec2Model ----
(***************************************************************************)
(* Flash-image assembly and upload dispatch of the urack platform:         *)
(* builder/frameworks/pioarduino-build.py (partition table and bootloader  *)
(* resolution, FLASH_EXTRA_IMAGES) and builder/main.py (upload protocol    *)
(* selection, upload command construction, upload actions).                *)
(*                                                                         *)
(* Representation.  A path is a sequence of components; the component "/"  *)
(* at the head marks an absolute path, the empty sequence is the empty     *)
(* string.  Plain names (mcu, variant, offsets such as "0x1000") are       *)
(* strings.  A command is a sequence of tokens, each token a path.         *)
(***************************************************************************)
EXTENDS Integers, Sequences, FiniteSets, TLC

VARIABLES
    board_config,           \* env.BoardConfig(): key -> <<>> (unset) or <<value>>
    fs,                     \* the regular files that exist (absolute, normalised paths)
    BOARD,                  \* env["BOARD"], the board's name
    PARTITIONS_TABLE_CSV,   \* env["PARTITIONS_TABLE_CSV"], <<>> before it is set
    FLASH_EXTRA_IMAGES,     \* env["FLASH_EXTRA_IMAGES"]: sequence of <<offset, path>>
    commands,               \* targets of the build commands registered with env.Command
    calls,                  \* number of calls of get_partition_table_csv so far
    UPLOAD_PROTOCOL,        \* env["UPLOAD_PROTOCOL"], the requested protocol
    UPLOAD_PORT,            \* env["UPLOAD_PORT"], "" when not configured
    ESP32_APP_OFFSET,       \* env["ESP32_APP_OFFSET"]: <<>> (unset) or <<offset>>
    FS_START,               \* env["FS_START"]: <<>> (unset) or <<offset>>
    target,                 \* the upload target on the command line
    upload_protocol,        \* main.py's upload_protocol
    UPLOADER,               \* env["UPLOADER"]
    UPLOADERFLAGS,          \* env["UPLOADERFLAGS"]: sequence of tokens
    UPLOADCMD,              \* env["UPLOADCMD"]: sequence of tokens, <<>> when unset
    upload_actions,         \* main.py's upload_actions: sequence of action names
    todo,                   \* the actions of the running target still to execute
    executed,               \* the port actions and tool commands run so far
    out,                    \* the lines of the upload summary written to stdout
    err,                    \* the messages written to stderr
    status,                 \* "running", "done" or "failed"
    pc                      \* position in the build scripts

cfgvars == <<board_config, fs, BOARD, UPLOAD_PROTOCOL, ESP32_APP_OFFSET, FS_START, target>>
fwvars == <<PARTITIONS_TABLE_CSV, FLASH_EXTRA_IMAGES, commands, calls>>
upvars == <<upload_protocol, UPLOADER, UPLOADERFLAGS, UPLOADCMD, upload_actions>>
runvars == <<UPLOAD_PORT, todo, executed, out, err, status>>
vars == <<cfgvars, fwvars, upvars, runvars, pc>>

----------------------------------------------------------------------------
(* Bounds *)

MaxCalls == 2
MaxExtra == 2
MaxUploadExtra == 1

----------------------------------------------------------------------------
(* os.path on component sequences *)

Comp(s) == IF s = "" THEN <<>> ELSE <<s>>

IsAbs(p) == Len(p) > 0 /\ p[1] = "/"

\* os.path.join(a, b): an absolute b discards a
join(a, b) == IF IsAbs(b) THEN b ELSE a \o b

RECURSIVE NormAcc(_, _)
NormAcc(acc, p) ==
    IF p = <<>> THEN acc
    ELSE LET c == Head(p) IN
         IF c = "." \/ c = "" \/ (c = "/" /\ acc # <<>>) THEN NormAcc(acc, Tail(p))
         ELSE IF c = ".." THEN
              IF acc = <<>> \/ acc[Len(acc)] = ".." THEN NormAcc(Append(acc, c), Tail(p))
              ELSE IF acc = <<"/">> THEN NormAcc(acc, Tail(p))
              ELSE NormAcc(SubSeq(acc, 1, Len(acc) - 1), Tail(p))
         ELSE NormAcc(Append(acc, c), Tail(p))

\* os.path.normpath
normpath(p) == NormAcc(<<>>, p)

\* the working directory of the build (os.getcwd())
Cwd == <<"/", "proj">>

\* os.path.abspath
abspath(p) == normpath(IF IsAbs(p) THEN p ELSE Cwd \o p)

\* os.path.basename
basename(p) == IF p = <<>> THEN "" ELSE p[Len(p)]

----------------------------------------------------------------------------
(* The SCons environment's construction variables that paths refer to *)

PROJECT_DIR == <<"/", "proj">>
BUILD_DIR == <<"/", "proj", "build">>

\* platform.get_package_dir(name)
PackageDir(name) == <<"/", "packages", name>>

\* env["OBJCOPY"], set at main.py:89
OBJCOPY == join(PackageDir("tool-esptoolpy"), <<"esptool.py">>)

\* the value of a construction variable inside a string; anything else stays as it is
SubstPiece(piece) ==
    CASE piece = "$PROJECT_DIR" -> PROJECT_DIR
      [] piece = "$BUILD_DIR" -> BUILD_DIR
      [] piece = "$OBJCOPY" -> OBJCOPY
      [] piece = "$UPLOADER" -> UPLOADER
      [] piece = "$UPLOAD_PORT" -> Comp(UPLOAD_PORT)
      [] piece = "$ESP32_APP_OFFSET" ->
             IF ESP32_APP_OFFSET = <<>> THEN <<>> ELSE Comp(ESP32_APP_OFFSET[1])
      [] piece = "$FS_START" -> IF FS_START = <<>> THEN <<>> ELSE Comp(FS_START[1])
      [] OTHER -> <<piece>>

RECURSIVE subst(_)
\* env.subst: the construction variables are expanded in place, an unset one to ""
subst(p) == IF p = <<>> THEN <<>> ELSE SubstPiece(Head(p)) \o subst(Tail(p))

\* os.path.isfile
isfile(p) == abspath(p) \in fs

----------------------------------------------------------------------------
(* Board configuration *)

BoardHas(key) == board_config[key] # <<>>

\* board_config.get(key, default)
BoardGet(key, default) == IF BoardHas(key) THEN board_config[key][1] ELSE default

PlatformDir == <<"/", "platform">>
PREBUILT_DIR == join(PlatformDir, <<"prebuilt">>)
FRAMEWORK_DIR == join(join(PREBUILT_DIR, <<"include">>), <<"arduino">>)
FRAMEWORK_LIBS_DIR == join(join(PREBUILT_DIR, <<"include">>), <<"esp-idf">>)

partitions_name ==
    BoardGet("build.partitions", BoardGet("build.arduino.partitions", <<>>))

variants_dir ==
    IF BoardHas("build.variants_dir")
    THEN join(<<"$PROJECT_DIR">>, BoardGet("build.variants_dir", <<>>))
    ELSE join(FRAMEWORK_DIR, <<"variants">>)

fwpartitions_dir == join(join(FRAMEWORK_DIR, <<"tools">>), <<"partitions">>)

variant_partitions_dir(variants_dir_) ==
    join(variants_dir_, Comp(BoardGet("build.variant", "")))

\* the resolver with the explicit path tried before the shared tools directory
get_partition_table_csv_explicit_first(variants_dir_) ==
    IF partitions_name # <<>>
    THEN IF isfile(subst(join(variant_partitions_dir(variants_dir_), partitions_name)))
         THEN join(variant_partitions_dir(variants_dir_), partitions_name)
         ELSE abspath(IF isfile(subst(partitions_name))
                      THEN partitions_name
                      ELSE join(fwpartitions_dir, partitions_name))
    ELSE LET variant_partitions ==
                 join(variant_partitions_dir(variants_dir_), <<"partitions.csv">>)
         IN IF isfile(subst(variant_partitions))
            THEN variant_partitions
            ELSE join(fwpartitions_dir, <<"default.csv">>)

\* the resolver falling back to the built-in default for a name missing from the variant
get_partition_table_csv_default_fallback(variants_dir_) ==
    IF partitions_name # <<>>
       /\ isfile(subst(join(variant_partitions_dir(variants_dir_), partitions_name)))
    THEN join(variant_partitions_dir(variants_dir_), partitions_name)
    ELSE LET variant_partitions ==
                 join(variant_partitions_dir(variants_dir_), <<"partitions.csv">>)
         IN IF isfile(subst(variant_partitions))
            THEN variant_partitions
            ELSE join(fwpartitions_dir, <<"default.csv">>)

\* the resolver looking for partitions.csv in the variants root, not in the variant
get_partition_table_csv_root_csv(variants_dir_) ==
    IF partitions_name # <<>>
    THEN IF isfile(subst(join(variant_partitions_dir(variants_dir_), partitions_name)))
         THEN join(variant_partitions_dir(variants_dir_), partitions_name)
         ELSE abspath(IF isfile(subst(join(fwpartitions_dir, partitions_name)))
                      THEN join(fwpartitions_dir, partitions_name)
                      ELSE partitions_name)
    ELSE LET variant_partitions == join(variants_dir_, <<"partitions.csv">>)
         IN IF isfile(subst(variant_partitions))
            THEN variant_partitions
            ELSE join(fwpartitions_dir, <<"default.csv">>)

\* the resolver keeping the variant's own table only on the first call
get_partition_table_csv_first_call_only(variants_dir_) ==
    IF partitions_name # <<>>
    THEN IF PARTITIONS_TABLE_CSV = <<>>
            /\ isfile(subst(join(variant_partitions_dir(variants_dir_), partitions_name)))
         THEN join(variant_partitions_dir(variants_dir_), partitions_name)
         ELSE abspath(IF isfile(subst(join(fwpartitions_dir, partitions_name)))
                      THEN join(fwpartitions_dir, partitions_name)
                      ELSE partitions_name)
    ELSE LET variant_partitions ==
                 join(variant_partitions_dir(variants_dir_), <<"partitions.csv">>)
         IN IF PARTITIONS_TABLE_CSV = <<>> /\ isfile(subst(variant_partitions))
            THEN variant_partitions
            ELSE join(fwpartitions_dir, <<"default.csv">>)

get_partition_table_csv(variants_dir_) ==
    IF partitions_name # <<>>
    THEN IF isfile(subst(join(variant_partitions_dir(variants_dir_), partitions_name)))
         THEN join(variant_partitions_dir(variants_dir_), partitions_name)
         ELSE abspath(IF isfile(subst(join(fwpartitions_dir, partitions_name)))
                      THEN join(fwpartitions_dir, partitions_name)
                      ELSE partitions_name)
    ELSE LET variant_partitions ==
                 join(variant_partitions_dir(variants_dir_), <<"partitions.csv">>)
         IN IF isfile(subst(variant_partitions))
            THEN variant_partitions
            ELSE join(fwpartitions_dir, <<"default.csv">>)

----------------------------------------------------------------------------
(* Bootloader image and FLASH_EXTRA_IMAGES (pioarduino-build.py) *)

\* str.lower on the microcontroller names of the model
Lower(s) ==
    CASE s = "ESP32" -> "esp32"
      [] s = "ESP32S2" -> "esp32s2"
      [] s = "ESP32P4" -> "esp32p4"
      [] s = "ESP32S3" -> "esp32s3"
      [] OTHER -> s

build_mcu == Lower(BoardGet("build.mcu", ""))

\* str.endswith("tinyuf2.csv") on the partition names of the model
EndsWithTinyuf2Csv(name) == basename(name) \in {"tinyuf2.csv", "partitions-tinyuf2.csv"}

\* str.startswith("adafruit") on the board names of the model
StartsWithAdafruit(board) == board \in {"adafruit_feather_esp32s3"}

bootloader_image_file ==
    IF EndsWithTinyuf2Csv(partitions_name) THEN "bootloader-tinyuf2.bin" ELSE "bootloader.bin"

variant_bootloader(variants_dir_) ==
    join(join(variants_dir_, Comp(BoardGet("build.variant", ""))),
         Comp(BoardGet("build.arduino.custom_bootloader", bootloader_image_file)))

\* "__get_board_boot_mode" is not yet in env when the framework script runs
boot_mode == BoardGet("build.boot", BoardGet("build.flash_mode", "dio"))
boot_freq == "40m"

bootloader_elf ==
    join(join(join(FRAMEWORK_LIBS_DIR, Comp(build_mcu)), <<"bin">>),
         <<"bootloader_" \o boot_mode \o "_" \o boot_freq \o ".elf">>)

\* the target of the command that generate_bootloader_image registers
generate_bootloader_image(bootloader_elf_) == subst(join(<<"$BUILD_DIR">>, <<"bootloader.bin">>))

\* the bootloader resolution that generates whenever the ELF is there
get_bootloader_image_elf_first(variants_dir_) ==
    IF isfile(subst(bootloader_elf))
    THEN generate_bootloader_image(bootloader_elf)
    ELSE variant_bootloader(variants_dir_)

get_bootloader_image(variants_dir_) ==
    IF isfile(subst(variant_bootloader(variants_dir_)))
    THEN variant_bootloader(variants_dir_)
    ELSE generate_bootloader_image(bootloader_elf)

\* the bootloader offset without the esp32p4 case
BootloaderOffset_no_p4 ==
    IF build_mcu \in {"esp32", "esp32s2"} THEN "0x1000" ELSE "0x0000"

BootloaderOffset ==
    IF build_mcu \in {"esp32", "esp32s2"} THEN "0x1000"
    ELSE IF build_mcu \in {"esp32p4"} THEN "0x2000" ELSE "0x0000"

BoardExtraImages == BoardGet("upload.arduino.flash_extra_images", <<>>)

\* the list appended at line 203 with the board's extra images put first
FrameworkExtraImages_extras_first ==
    [i \in 1..Len(BoardExtraImages) |->
        <<BoardExtraImages[i][1], join(FRAMEWORK_DIR, BoardExtraImages[i][2])>>]
    \o
    << <<BootloaderOffset, get_bootloader_image(variants_dir)>>,
       <<"0x8000", join(subst(<<"$BUILD_DIR">>), <<"partitions.bin">>)>>,
       <<"0xe000", join(join(join(FRAMEWORK_DIR, <<"tools">>), <<"partitions">>),
                        <<"boot_app0.bin">>)>> >>

\* the list appended at line 203 with the boot stub before the partition table
FrameworkExtraImages_stub_first ==
    << <<BootloaderOffset, get_bootloader_image(variants_dir)>>,
       <<"0xe000", join(join(join(FRAMEWORK_DIR, <<"tools">>), <<"partitions">>),
                        <<"boot_app0.bin">>)>>,
       <<"0x8000", join(subst(<<"$BUILD_DIR">>), <<"partitions.bin">>)>> >>
    \o [i \in 1..Len(BoardExtraImages) |->
           <<BoardExtraImages[i][1], join(FRAMEWORK_DIR, BoardExtraImages[i][2])>>]

\* the list appended to FLASH_EXTRA_IMAGES at line 203
FrameworkExtraImages ==
    << <<BootloaderOffset, get_bootloader_image(variants_dir)>>,
       <<"0x8000", join(subst(<<"$BUILD_DIR">>), <<"partitions.bin">>)>>,
       <<"0xe000", join(join(join(FRAMEWORK_DIR, <<"tools">>), <<"partitions">>),
                        <<"boot_app0.bin">>)>> >>
    \o [i \in 1..Len(BoardExtraImages) |->
           <<BoardExtraImages[i][1], join(FRAMEWORK_DIR, BoardExtraImages[i][2])>>]

tinuf2_image ==
    BoardGet("upload.arduino.tinyuf2_image",
             join(join(variants_dir, Comp(BoardGet("build.variant", ""))), <<"tinyuf2.bin">>))

\* add_tinyuf2_extra_image without the test for an image that is already added
add_tinyuf2_extra_image_no_dedup(images) ==
    IF ~isfile(subst(tinuf2_image)) THEN images
    ELSE images \o
         << <<BoardGet("upload.arduino.uf2_bootloader_offset",
                       IF StartsWithAdafruit(BOARD) THEN "0x2d0000" ELSE "0x410000"),
              tinuf2_image>> >>

\* the value of FLASH_EXTRA_IMAGES after add_tinyuf2_extra_image, called with it at images
add_tinyuf2_extra_image(images) ==
    IF ~isfile(subst(tinuf2_image)) THEN images
    ELSE IF \E i \in 1..Len(images) : basename(images[i][2]) = "tinyuf2.bin" THEN images
    ELSE images \o
         << <<BoardGet("upload.arduino.uf2_bootloader_offset",
                       IF StartsWithAdafruit(BOARD) THEN "0x2d0000" ELSE "0x410000"),
              tinuf2_image>> >>

Tinyuf2Selected ==
    EndsWithTinyuf2Csv(partitions_name) \/ BoardGet("upload.arduino.tinyuf2_image", <<>>) # <<>>

\* pioarduino-build.py as run by env.BuildProgram(): lines 203-234
BuildFramework ==
    /\ pc = "framework"
    /\ LET appended == FLASH_EXTRA_IMAGES \o FrameworkExtraImages
       IN FLASH_EXTRA_IMAGES' =
            IF Tinyuf2Selected THEN add_tinyuf2_extra_image(appended) ELSE appended
    /\ PARTITIONS_TABLE_CSV' = get_partition_table_csv(variants_dir)
    /\ calls' = calls + 1
    /\ commands' = commands
          \cup (IF isfile(subst(variant_bootloader(variants_dir))) THEN {}
                ELSE {join(<<"$BUILD_DIR">>, <<"bootloader.bin">>)})
          \cup {join(<<"$BUILD_DIR">>, <<"partitions.bin">>)}
    /\ pc' = "main"
    /\ UNCHANGED <<cfgvars, upvars, runvars>>

----------------------------------------------------------------------------
(* Upload protocol selection and upload commands (main.py) *)

mcu == BoardGet("build.mcu", "esp32")

Toks(strs) == [i \in DOMAIN strs |-> <<strs[i]>>]

\* target_firm, the source of the upload targets
SOURCE == join(BUILD_DIR, <<"firmware.bin">>)

COMMAND_LINE_TARGETS == {target}

debug_tools == BoardGet("debug.tools", <<>>)

\* re.match of the IPv4-or-.local pattern of line 156 on the port names of the model
MatchesOtaHost(port) == port \in {"192.168.1.5", "urack.local"}

to_unix_slashes(path) == [i \in DOMAIN path |-> IF path[i] = "\\" THEN "/" ELSE path[i]]

\* str.replace("$PACKAGE_DIR", dir) on an openocd argument
ReplacePackageDir(arg) ==
    IF arg # <<>> /\ Head(arg) = "$PACKAGE_DIR"
    THEN to_unix_slashes(PackageDir("tool-openocd-esp32")) \o Tail(arg)
    ELSE arg

\* the protocol selection that keeps the configured protocol
SelectProtocol_keeps ==
    /\ pc = "main"
    /\ upload_protocol' = UPLOAD_PROTOCOL
    /\ pc' = "configure"
    /\ UNCHANGED <<cfgvars, fwvars, UPLOADER, UPLOADERFLAGS, UPLOADCMD, upload_actions,
                   UPLOAD_PORT, todo, executed, out, err, status>>

\* main.py:150-163
SelectProtocol ==
    /\ pc = "main"
    /\ LET switched == UPLOAD_PROTOCOL # "espota" /\ MatchesOtaHost(UPLOAD_PORT)
       IN /\ upload_protocol' = IF switched THEN "espota" ELSE UPLOAD_PROTOCOL
          /\ err' = IF switched THEN Append(err, "Warning! upload_protocol is switched to espota")
                    ELSE err
    /\ pc' = "configure"
    /\ UNCHANGED <<cfgvars, fwvars, UPLOADER, UPLOADERFLAGS, UPLOADCMD, upload_actions,
                   UPLOAD_PORT, todo, executed, out, status>>

espota_script ==
    join(join(join(join(PREBUILT_DIR, <<"include">>), <<"arduino">>), <<"tools">>),
         <<"espota.py">>)

\* the espota branch also passing the flash layout to the uploader
ConfigureEspota_with_images ==
    /\ pc = "configure"
    /\ upload_protocol = "espota"
    /\ isfile(espota_script)
    /\ UPLOADER' = espota_script
    /\ UPLOADERFLAGS' = Toks(<<"--debug", "--progress", "-i", "$UPLOAD_PORT">>)
                          \o [i \in 1..(2 * Len(FLASH_EXTRA_IMAGES)) |->
                                IF i % 2 = 1 THEN <<FLASH_EXTRA_IMAGES[(i + 1) \div 2][1]>>
                                ELSE subst(FLASH_EXTRA_IMAGES[i \div 2][2])]
    /\ UPLOADCMD' = Toks(<<"$PYTHONEXE", "$UPLOADER", "$UPLOADERFLAGS", "-f", "$SOURCE">>)
    /\ upload_actions' = <<"UPLOADCMD">>
    /\ pc' = "targets"
    /\ UNCHANGED <<cfgvars, fwvars, upload_protocol, runvars>>

\* main.py:165-187
ConfigureEspota ==
    /\ pc = "configure"
    /\ upload_protocol = "espota"
    /\ LET err1 == IF subst(<<"$UPLOAD_PORT">>) = <<>>
                   THEN Append(err, "Error: Please specify IP address or host name")
                   ELSE err
       IN IF ~isfile(espota_script)
          THEN /\ err' = Append(err1, "Error: espota.py not found in prebuilt")
               /\ status' = "failed"
               /\ pc' = "exit"
               /\ UNCHANGED upvars
          ELSE /\ err' = err1
               /\ UPLOADER' = espota_script
               /\ UPLOADERFLAGS' =
                    Toks(<<"--debug", "--progress", "-i", "$UPLOAD_PORT">>)
                    \o (IF {"uploadfs", "uploadfsota"} \cap COMMAND_LINE_TARGETS # {}
                        THEN Toks(<<"--spiffs">>) ELSE <<>>)
               /\ UPLOADCMD' =
                    Toks(<<"$PYTHONEXE", "$UPLOADER", "$UPLOADERFLAGS", "-f", "$SOURCE">>)
               /\ upload_actions' = <<"UPLOADCMD">>
               /\ upload_protocol' = upload_protocol
               /\ status' = status
               /\ pc' = "targets"
    /\ UNCHANGED <<cfgvars, fwvars, UPLOAD_PORT, todo, executed, out>>

EsptoolFlags ==
    Toks(<<"--chip", mcu, "--port", "$UPLOAD_PORT", "--baud", "$UPLOAD_SPEED",
           "--before", BoardGet("upload.before_reset", "default_reset"),
           "--after", BoardGet("upload.after_reset", "hard_reset"),
           "write_flash", "-z",
           "--flash_mode", "${__get_board_flash_mode(__env__)}",
           "--flash_freq", "${__get_board_f_image(__env__)}",
           "--flash_size", "detect">>)

\* the arguments appended by the loop of main.py:208-209
ImageFlags(images) ==
    [i \in 1..(2 * Len(images)) |->
        IF i % 2 = 1 THEN <<images[(i + 1) \div 2][1]>> ELSE subst(images[i \div 2][2])]

\* main.py:189-236
ConfigureEsptool ==
    /\ pc = "configure"
    /\ upload_protocol = "esptool"
    /\ UPLOADER' = join(PackageDir("tool-esptoolpy"), <<"esptool.py">>)
    /\ IF "uploadfs" \in COMMAND_LINE_TARGETS
       THEN /\ UPLOADERFLAGS' = EsptoolFlags \o Toks(<<"$FS_START">>)
            /\ UPLOADCMD' = Toks(<<"$PYTHONEXE", "$UPLOADER", "$UPLOADERFLAGS", "$SOURCE">>)
            /\ upload_actions' = <<"BeforeUpload", "UPLOADCMD">>
       ELSE /\ UPLOADERFLAGS' = EsptoolFlags \o ImageFlags(FLASH_EXTRA_IMAGES)
            /\ UPLOADCMD' = Toks(<<"$PYTHONEXE", "$UPLOADER", "$UPLOADERFLAGS",
                                   "$ESP32_APP_OFFSET", "$SOURCE">>)
            /\ upload_actions' = <<"PrintUploadInfo", "BeforeUpload", "UPLOADCMD">>
    /\ pc' = "targets"
    /\ UNCHANGED <<cfgvars, fwvars, upload_protocol, runvars>>

hwids == BoardGet("build.hwids", << <<"0x2341", "0x0070">> >>)

RECURSIVE JoinHwids(_)
\* ",".join(["%s:%s" % (hwid[0], hwid[1]) for hwid in hwids])
JoinHwids(hs) ==
    IF hs = <<>> THEN <<>>
    ELSE <<hs[1][1], ":", hs[1][2]>> \o (IF Len(hs) > 1 THEN <<",">> ELSE <<>>)
         \o JoinHwids(Tail(hs))

\* main.py:238-254
ConfigureDfu ==
    /\ pc = "configure"
    /\ upload_protocol = "dfu"
    /\ upload_actions' = <<"UPLOADCMD">>
    /\ UPLOADER' = join(PackageDir("tool-dfuutil-arduino"), <<"dfu-util">>)
    /\ UPLOADERFLAGS' = <<<<"-d">>, JoinHwids(hwids), <<"-Q">>, <<"-D">>>>
    /\ UPLOADCMD' = Toks(<<"$UPLOADER", "$UPLOADERFLAGS", "$SOURCE">>)
    /\ pc' = "targets"
    /\ UNCHANGED <<cfgvars, fwvars, upload_protocol, runvars>>

\* the openocd program_esp commands of main.py:260-281
ProgramEspArgs ==
    << <<"-c">>,
       <<"program_esp {{", "$SOURCE", "}}",
         IF "uploadfs" \in COMMAND_LINE_TARGETS THEN "$FS_START"
         ELSE IF ESP32_APP_OFFSET = <<>> THEN "0x10000" ELSE ESP32_APP_OFFSET[1],
         "verify">> >>
    \o (IF "uploadfs" \notin COMMAND_LINE_TARGETS
        THEN [i \in 1..(2 * Len(FLASH_EXTRA_IMAGES)) |->
                IF i % 2 = 1 THEN <<"-c">>
                ELSE <<"program_esp {{">>
                     \o to_unix_slashes(FLASH_EXTRA_IMAGES[i \div 2][2])
                     \o <<"}}", FLASH_EXTRA_IMAGES[i \div 2][1], "verify">>]
        ELSE <<>>)

openocd_args ==
    LET args == Toks(<<"-d1">>)
                \o debug_tools[upload_protocol]
                \o Toks(<<"-c", "adapter speed 5000">>)
                \o ProgramEspArgs
                \o Toks(<<"-c", "reset run; shutdown">>)
    IN [i \in DOMAIN args |-> ReplacePackageDir(args[i])]

\* the debugger branch with port detection before the transfer
ConfigureDebugTool_with_detect ==
    /\ pc = "configure"
    /\ upload_protocol \notin {"espota", "esptool", "dfu"}
    /\ upload_protocol \in DOMAIN debug_tools
    /\ UPLOADER' = <<"openocd">>
    /\ UPLOADERFLAGS' = openocd_args
    /\ UPLOADCMD' = Toks(<<"$UPLOADER", "$UPLOADERFLAGS">>)
    /\ upload_actions' = <<"BeforeUpload", "UPLOADCMD">>
    /\ pc' = "targets"
    /\ UNCHANGED <<cfgvars, fwvars, upload_protocol, runvars>>

\* main.py:256-295
ConfigureDebugTool ==
    /\ pc = "configure"
    /\ upload_protocol \notin {"espota", "esptool", "dfu"}
    /\ upload_protocol \in DOMAIN debug_tools
    /\ UPLOADER' = <<"openocd">>
    /\ UPLOADERFLAGS' = openocd_args
    /\ UPLOADCMD' = Toks(<<"$UPLOADER", "$UPLOADERFLAGS">>)
    /\ upload_actions' = <<"UPLOADCMD">>
    /\ pc' = "targets"
    /\ UNCHANGED <<cfgvars, fwvars, upload_protocol, runvars>>

\* main.py:297-299
ConfigureCustom ==
    /\ pc = "configure"
    /\ upload_protocol = "custom"
    /\ upload_protocol \notin DOMAIN debug_tools
    /\ upload_actions' = <<"UPLOADCMD">>
    /\ pc' = "targets"
    /\ UNCHANGED <<cfgvars, fwvars, upload_protocol, UPLOADER, UPLOADERFLAGS, UPLOADCMD,
                   runvars>>

\* main.py:301-302
UnknownProtocol ==
    /\ pc = "configure"
    /\ upload_protocol \notin {"espota", "esptool", "dfu", "custom"}
    /\ upload_protocol \notin DOMAIN debug_tools
    /\ err' = Append(err, "Warning! Unknown upload protocol")
    /\ pc' = "targets"
    /\ UNCHANGED <<cfgvars, fwvars, upvars, UPLOAD_PORT, todo, executed, out, status>>

\* the action lists with erase_upload uploading before it erases
TargetActions_upload_first(name) ==
    CASE name = "upload" -> upload_actions
      [] name = "uploadfs" -> upload_actions
      [] name = "erase_upload" -> <<"BeforeUpload", "UPLOADCMD", "erase_flash">>
      [] name = "erase" -> <<"BeforeUpload", "erase_flash">>

\* the action lists given to env.AddPlatformTarget at main.py:304-340
TargetActions(name) ==
    CASE name = "upload" -> upload_actions
      [] name = "uploadfs" -> upload_actions
      [] name = "erase_upload" -> <<"BeforeUpload", "erase_flash", "UPLOADCMD">>
      [] name = "erase" -> <<"BeforeUpload", "erase_flash">>

\* main.py:304-343; the build then runs the actions of the requested target
StartTarget ==
    /\ pc = "targets"
    /\ todo' = TargetActions(target)
    /\ pc' = "run"
    /\ UNCHANGED <<cfgvars, fwvars, upvars, UPLOAD_PORT, executed, out, err, status>>

----------------------------------------------------------------------------
(* The actions of an upload target (main.py) *)

\* $SOURCE, then the construction variables, of one token of a command line
ExpandToken(tok) ==
    LET RECURSIVE WithSource(_)
        WithSource(t) ==
            IF t = <<>> THEN <<>>
            ELSE (IF Head(t) = "$SOURCE" THEN SOURCE ELSE <<Head(t)>>) \o WithSource(Tail(t))
    IN subst(WithSource(tok))

RECURSIVE ExpandList(_)
\* the words of a substituted list; a token that expands to "" leaves no word
ExpandList(toks) ==
    IF toks = <<>> THEN <<>>
    ELSE (LET e == ExpandToken(Head(toks)) IN IF e = <<>> THEN <<>> ELSE <<e>>)
         \o ExpandList(Tail(toks))

RECURSIVE ExpandCmd(_)
\* the command line SCons runs for a command string such as "$UPLOADCMD"
ExpandCmd(cmd) ==
    IF cmd = <<>> THEN <<>>
    ELSE (IF Head(cmd) = <<"$UPLOADERFLAGS">> THEN ExpandList(UPLOADERFLAGS)
          ELSE ExpandList(<<Head(cmd)>>))
         \o ExpandCmd(Tail(cmd))

Running(name) == pc = "run" /\ todo # <<>> /\ Head(todo) = name

\* the lines PrintUploadInfo writes: one per extra image, then the firmware
UploadInfoLines ==
    [i \in 1..Len(FLASH_EXTRA_IMAGES) |->
        [offset |-> FLASH_EXTRA_IMAGES[i][1],
         filename |-> basename(subst(FLASH_EXTRA_IMAGES[i][2])),
         filepath |-> subst(FLASH_EXTRA_IMAGES[i][2])]]
    \o << [offset |-> IF subst(<<"$ESP32_APP_OFFSET">>) = <<>> THEN "0x10000"
                      ELSE subst(<<"$ESP32_APP_OFFSET">>)[1],
           filename |-> basename(SOURCE),
           filepath |-> SOURCE] >>

\* main.py:48-77
RunPrintUploadInfo ==
    /\ Running("PrintUploadInfo")
    /\ out' = out \o UploadInfoLines
    /\ todo' = Tail(todo)
    /\ UNCHANGED <<cfgvars, fwvars, upvars, UPLOAD_PORT, executed, err, status, pc>>

SerialPorts == {"/dev/ttyUSB0"}
NewSerialPorts == {"/dev/ttyACM0"}

\* BeforeUpload touching the port whatever the board says
RunBeforeUpload_always_touch ==
    /\ Running("BeforeUpload")
    /\ UPLOAD_PORT # ""
    /\ executed' = Append(executed, [kind |-> "touch", cmd |-> <<Comp(UPLOAD_PORT)>>])
    /\ todo' = Tail(todo)
    /\ UNCHANGED <<cfgvars, fwvars, upvars, UPLOAD_PORT, out, err, status, pc>>

\* BeforeUpload going on to the next action when no port is known
RunBeforeUpload_goes_on ==
    /\ Running("BeforeUpload")
    /\ \E found \in {""} \cup SerialPorts :
         /\ executed' = executed \o (IF UPLOAD_PORT # "" THEN <<>>
                                     ELSE <<[kind |-> "autodetect", cmd |-> <<Comp(found)>>]>>)
         /\ UPLOAD_PORT' = IF UPLOAD_PORT # "" THEN UPLOAD_PORT ELSE found
    /\ todo' = Tail(todo)
    /\ UNCHANGED <<cfgvars, fwvars, upvars, out, err, status, pc>>

\* main.py:33-45; found is the port env.AutodetectUploadPort() finds and appeared the
\* port env.WaitForNewSerialPort() sees appear, "" for none
RunBeforeUpload ==
    /\ Running("BeforeUpload")
    /\ \E found \in {""} \cup SerialPorts, appeared \in {""} \cup NewSerialPorts :
         LET touch == BoardGet("upload.use_1200bps_touch", FALSE)
             wait == BoardGet("upload.wait_for_upload_port", FALSE)
             port == IF UPLOAD_PORT # "" THEN UPLOAD_PORT ELSE found
             detect == IF UPLOAD_PORT # "" THEN <<>>
                       ELSE <<[kind |-> "autodetect", cmd |-> <<Comp(found)>>]>>
             touched == IF touch THEN <<[kind |-> "touch", cmd |-> <<Comp(port)>>]>>
                        ELSE <<>>
             waited == IF wait THEN <<[kind |-> "wait", cmd |-> <<Comp(appeared)>>]>>
                       ELSE <<>>
         IN IF port = ""
            THEN /\ executed' = executed \o detect
                 /\ err' = Append(err, "Error: Please specify upload_port")
                 /\ UPLOAD_PORT' = UPLOAD_PORT
                 /\ status' = "failed"
                 /\ todo' = <<>>
                 /\ pc' = "exit"
            ELSE IF wait /\ appeared = ""
            THEN /\ executed' = executed \o detect \o touched \o waited
                 /\ err' = Append(err, "Error: Couldn't find a board on the selected port")
                 /\ UPLOAD_PORT' = port
                 /\ status' = "failed"
                 /\ todo' = <<>>
                 /\ pc' = "exit"
            ELSE /\ executed' = executed \o detect \o touched \o waited
                 /\ err' = err
                 /\ UPLOAD_PORT' = IF wait THEN appeared ELSE port
                 /\ status' = status
                 /\ todo' = Tail(todo)
                 /\ pc' = pc
    /\ UNCHANGED <<cfgvars, fwvars, upvars, out>>

\* a command action: the tool runs with the expanded command line and exits with rc
RunTool(kind, cmd, rc) ==
    IF cmd = <<>>
    THEN /\ todo' = Tail(todo)
         /\ UNCHANGED <<executed, status, pc>>
    ELSE /\ executed' = Append(executed, [kind |-> kind, cmd |-> cmd])
         /\ IF rc = 0
            THEN todo' = Tail(todo) /\ UNCHANGED <<status, pc>>
            ELSE todo' = <<>> /\ status' = "failed" /\ pc' = "exit"

\* env.VerboseAction("$UPLOADCMD", "Uploading $SOURCE")
RunUploadCmd ==
    /\ Running("UPLOADCMD")
    /\ \E rc \in {0, 1} : RunTool("transfer", ExpandCmd(UPLOADCMD), rc)
    /\ UNCHANGED <<cfgvars, fwvars, upvars, UPLOAD_PORT, out, err>>

\* the erase command run with the uploader of the selected protocol
EraseCmd_resolved_tool ==
    Toks(<<"$PYTHONEXE", "$UPLOADER", "--chip", mcu, "--port", "$UPLOAD_PORT", "erase_flash">>)

\* main.py:316-319 and 334-337
EraseCmd ==
    Toks(<<"$PYTHONEXE", "$OBJCOPY", "--chip", mcu, "--port", "$UPLOAD_PORT", "erase_flash">>)

RunEraseFlash ==
    /\ Running("erase_flash")
    /\ \E rc \in {0, 1} : RunTool("erase", ExpandCmd(EraseCmd), rc)
    /\ UNCHANGED <<cfgvars, fwvars, upvars, UPLOAD_PORT, out, err>>

\* every action of the target has run
Finish ==
    /\ pc = "run"
    /\ todo = <<>>
    /\ status' = "done"
    /\ pc' = "exit"
    /\ UNCHANGED <<cfgvars, fwvars, upvars, UPLOAD_PORT, todo, executed, out, err>>

----------------------------------------------------------------------------
(* Inputs *)

BoardKeys ==
    {"build.mcu", "build.partitions", "build.arduino.partitions", "build.variant",
     "build.variants_dir", "build.boot", "build.flash_mode",
     "build.arduino.custom_bootloader", "upload.flash_size",
     "upload.arduino.flash_extra_images", "upload.arduino.tinyuf2_image",
     "upload.arduino.uf2_bootloader_offset", "upload.before_reset",
     "upload.after_reset", "upload.use_1200bps_touch", "upload.wait_for_upload_port",
     "build.hwids", "debug.tools"}

\* the upload state before main.py has configured anything
NotYetConfigured ==
    /\ upload_protocol = ""
    /\ UPLOADER = <<>>
    /\ UPLOADERFLAGS = <<>>
    /\ UPLOADCMD = <<>>
    /\ upload_actions = <<>>
    /\ todo = <<>>
    /\ executed = <<>>
    /\ out = <<>>
    /\ err = <<>>
    /\ status = "running"

PartitionNames ==
    {<<"huge_app.csv">>, <<"/", "proj", "custom.csv">>, <<"..", "shared", "app.csv">>}

\* the files the resolver can look at under the current board configuration
TableCandidates ==
    { abspath(subst(join(variant_partitions_dir(variants_dir), n))) :
          n \in {partitions_name, <<"partitions.csv">>} }
    \cup { abspath(subst(join(fwpartitions_dir, n))) :
          n \in {partitions_name, <<"default.csv">>} }
    \cup { abspath(subst(partitions_name)) }

InitTable ==
    /\ \E p \in {<<>>} \cup {<<n>> : n \in PartitionNames},
          ap \in {<<>>, <<<<"min_spiffs.csv">>>>},
          v \in {<<>>, <<"urack">>},
          vd \in {<<>>, <<<<"boards", "variants">>>>} :
         board_config = [k \in BoardKeys |->
                           CASE k = "build.partitions" -> p
                             [] k = "build.arduino.partitions" -> ap
                             [] k = "build.variant" -> v
                             [] k = "build.variants_dir" -> vd
                             [] OTHER -> <<>>]
    /\ fs \in SUBSET TableCandidates
    /\ BOARD = "urack_esp32"
    /\ PARTITIONS_TABLE_CSV = <<>>
    /\ FLASH_EXTRA_IMAGES = <<>>
    /\ commands = {}
    /\ calls = 0
    /\ UPLOAD_PROTOCOL = "esptool"
    /\ UPLOAD_PORT = ""
    /\ ESP32_APP_OFFSET = <<>>
    /\ FS_START = <<>>
    /\ target = "upload"
    /\ NotYetConfigured
    /\ pc = "resolve"

McuValues == {"esp32", "ESP32S2", "esp32p4", "esp32s3"}

ExtraImageDecls ==
    { <<"0x0000", <<"tools", "extra_a.bin">> >>,
      <<"0x8000", <<"tools", "extra_b.bin">> >>,
      <<"0x290000", <<"tools", "extra_c.bin">> >>,
      <<"0x2d0000", <<"variants", "urack", "tinyuf2.bin">> >> }

SeqsUpTo(S, n) == UNION {[1..k -> S] : k \in 0..n}

\* the files the framework script can look at under the current board configuration
LayoutCandidates ==
    { abspath(subst(variant_bootloader(variants_dir))), abspath(subst(tinuf2_image)),
      abspath(subst(bootloader_elf)) }

InitLayout ==
    /\ \E m \in {<<>>} \cup {<<x>> : x \in McuValues},
          p \in {<<>>, <<<<"huge_app.csv">>>>, <<<<"tinyuf2.csv">>>>},
          b \in {<<>>, <<"urack_boot.bin">>},
          t \in {<<>>, <<<<"/", "uf2", "tinyuf2.bin">>>>},
          x \in SeqsUpTo(ExtraImageDecls, MaxExtra) :
         board_config = [k \in BoardKeys |->
                           CASE k = "build.mcu" -> m
                             [] k = "build.partitions" -> p
                             [] k = "build.arduino.custom_bootloader" -> b
                             [] k = "upload.arduino.tinyuf2_image" -> t
                             [] k = "build.variant" -> <<"urack">>
                             [] k = "upload.arduino.flash_extra_images" ->
                                    IF x = <<>> THEN <<>> ELSE <<x>>
                             [] OTHER -> <<>>]
    /\ fs \in SUBSET LayoutCandidates
    /\ BOARD \in {"urack_esp32", "adafruit_feather_esp32s3"}
    /\ PARTITIONS_TABLE_CSV = <<>>
    /\ FLASH_EXTRA_IMAGES = <<>>
    /\ commands = {}
    /\ calls = 0
    /\ UPLOAD_PROTOCOL = "esptool"
    /\ UPLOAD_PORT = ""
    /\ ESP32_APP_OFFSET = <<>>
    /\ FS_START = <<>>
    /\ target = "upload"
    /\ NotYetConfigured
    /\ pc = "framework"

NextLayout == BuildFramework

SpecLayout == InitLayout /\ [][NextLayout]_vars

Protocols == {"espota", "esptool", "dfu", "esp-prog", "custom", "avrdude"}
Targets == {"upload", "uploadfs", "erase_upload", "erase"}
ConfiguredPorts == {"", "/dev/ttyUSB0", "192.168.1.5", "urack.local"}

OpenocdServerArgs ==
    << <<"-s">>, <<"$PACKAGE_DIR", "share", "openocd", "scripts">>,
       <<"-f">>, <<"interface", "ftdi", "esp32_devkitj_v1.cfg">> >>

UploadExtraDecls ==
    { <<"0x8000", <<"tools", "extra_b.bin">> >>,
      <<"0x410000", <<"tools", "extra_c.bin">> >> }

\* the files main.py and the framework script can look at under the current configuration
UploadCandidates ==
    { abspath(subst(variant_bootloader(variants_dir))) }
    \cup (IF UPLOAD_PROTOCOL = "espota" \/ MatchesOtaHost(UPLOAD_PORT)
          THEN {espota_script} ELSE {})

Init ==
    /\ UPLOAD_PROTOCOL \in Protocols
    /\ UPLOAD_PORT \in ConfiguredPorts
    /\ target \in Targets
    /\ ESP32_APP_OFFSET \in {<<>>, <<"0x20000">>}
    /\ FS_START \in (IF target = "uploadfs" THEN {<<>>, <<"0x290000">>} ELSE {<<>>})
    /\ \E m \in {<<>>, <<"esp32">>},
          x \in SeqsUpTo(UploadExtraDecls, MaxUploadExtra),
          touch \in {<<>>, <<TRUE>>}, wait \in {<<>>, <<TRUE>>},
          dt \in (IF UPLOAD_PROTOCOL = "esp-prog"
                  THEN {<<>>, <<("esp-prog" :> OpenocdServerArgs)>>}
                  ELSE {<<("esp-prog" :> OpenocdServerArgs)>>}) :
         board_config = [k \in BoardKeys |->
                           CASE k = "build.mcu" -> m
                             [] k = "build.variant" -> <<"urack">>
                             [] k = "upload.arduino.flash_extra_images" ->
                                    IF x = <<>> THEN <<>> ELSE <<x>>
                             [] k = "upload.use_1200bps_touch" -> touch
                             [] k = "upload.wait_for_upload_port" -> wait
                             [] k = "debug.tools" -> dt
                             [] OTHER -> <<>>]
    /\ fs \in SUBSET UploadCandidates
    /\ BOARD = "urack_esp32"
    /\ PARTITIONS_TABLE_CSV = <<>>
    /\ FLASH_EXTRA_IMAGES = <<>>
    /\ commands = {}
    /\ calls = 0
    /\ NotYetConfigured
    /\ pc = "framework"

Next ==
    \/ BuildFramework
    \/ SelectProtocol
    \/ ConfigureEspota
    \/ ConfigureEsptool
    \/ ConfigureDfu
    \/ ConfigureDebugTool
    \/ ConfigureCustom
    \/ UnknownProtocol
    \/ StartTarget
    \/ RunPrintUploadInfo
    \/ RunBeforeUpload
    \/ RunUploadCmd
    \/ RunEraseFlash
    \/ Finish

Spec == Init /\ [][Next]_vars

\* pioarduino-build.py:224, env.Replace(PARTITIONS_TABLE_CSV=get_partition_table_csv(variants_dir))
ResolveTable ==
    /\ pc = "resolve"
    /\ calls < MaxCalls
    /\ PARTITIONS_TABLE_CSV' = get_partition_table_csv(variants_dir)
    /\ calls' = calls + 1
    /\ UNCHANGED <<cfgvars, FLASH_EXTRA_IMAGES, commands, upvars, runvars, pc>>

NextTable == ResolveTable

SpecTable == InitTable /\ [][NextTable]_vars

----------------------------------------------------------------------------
(* Partition-table resolution: claims C7 - C10 (specification SpecTable) *)

Resolved == calls >= 1
NameSet == partitions_name # <<>>
VariantCandidate == join(variant_partitions_dir(variants_dir), partitions_name)
SharedCandidate == join(fwpartitions_dir, partitions_name)
InVariant == isfile(subst(VariantCandidate))
InShared == isfile(subst(SharedCandidate))
AsExplicit == isfile(subst(partitions_name))
VariantCsv == join(join(variants_dir, Comp(BoardGet("build.variant", ""))), <<"partitions.csv">>)
DefaultCsv == join(join(join(FRAMEWORK_DIR, <<"tools">>), <<"partitions">>), <<"default.csv">>)

\* C7 as stated: with a partitions name set that exists both as an explicit path
\* and in the shared tools directory, and not in the variant directory, the
\* explicit path is returned.
C7_ExplicitBeforeShared ==
    (Resolved /\ NameSet /\ ~InVariant /\ AsExplicit /\ InShared)
        => PARTITIONS_TABLE_CSV = abspath(partitions_name)

\* C7 (amended): with a partitions name set, the resolver returns the name in the
\* variant's partition directory if that file exists, else the (absolute) name in
\* the shared tools partition directory if that file exists, else the name itself
\* as an absolute path, whether or not it exists; a name present both as an
\* explicit path and in the shared tools directory resolves to the shared one.
C7_VariantSharedExplicit ==
    (Resolved /\ NameSet) =>
        /\ InVariant => PARTITIONS_TABLE_CSV = VariantCandidate
        /\ (~InVariant /\ InShared) => PARTITIONS_TABLE_CSV = abspath(SharedCandidate)
        /\ (~InVariant /\ ~InShared) => PARTITIONS_TABLE_CSV = abspath(partitions_name)

C7_Witness ==
    /\ Resolved /\ NameSet /\ ~InVariant /\ AsExplicit /\ InShared
    /\ abspath(partitions_name) # abspath(SharedCandidate)
    /\ PARTITIONS_TABLE_CSV = abspath(SharedCandidate)

\* C8: a partitions name whose file exists only in the shared tools partition
\* directory resolves to that file's path there, never to the built-in default.
C8_SharedOnly ==
    (Resolved /\ NameSet /\ ~InVariant /\ ~AsExplicit /\ InShared) =>
        /\ PARTITIONS_TABLE_CSV = abspath(SharedCandidate)
        /\ PARTITIONS_TABLE_CSV # DefaultCsv

C8_Witness ==
    /\ Resolved /\ NameSet /\ ~InVariant /\ ~AsExplicit /\ InShared
    /\ DefaultCsv \in fs
    /\ PARTITIONS_TABLE_CSV = abspath(SharedCandidate)

\* C9: with no partitions name, the resolver returns
\* <variants_dir>/<variant>/partitions.csv if that file exists and the built-in
\* default CSV otherwise.
C9_NoName ==
    (Resolved /\ ~NameSet) =>
        PARTITIONS_TABLE_CSV = IF isfile(subst(VariantCsv)) THEN VariantCsv ELSE DefaultCsv

C9_Witness ==
    /\ Resolved /\ ~NameSet /\ isfile(subst(VariantCsv))
    /\ BoardHas("build.variant")
    /\ PARTITIONS_TABLE_CSV = VariantCsv

----------------------------------------------------------------------------
(* Flash layout construction: claims C1, C4, C6 (specification SpecLayout) *)

Built == pc \notin {"resolve", "framework"}

\* the numeric value of the offset literals of the model
OffsetValue(o) ==
    CASE o = "0x0000" -> 0
      [] o = "0x1000" -> 4096
      [] o = "0x2000" -> 8192
      [] o = "0x8000" -> 32768
      [] o = "0xe000" -> 57344
      [] o = "0x10000" -> 65536
      [] o = "0x20000" -> 131072
      [] o = "0x290000" -> 2686976
      [] o = "0x2d0000" -> 2949120
      [] o = "0x410000" -> 4259840

Ascending(images) ==
    \A i, j \in 1..Len(images) :
        i < j => OffsetValue(images[i][1]) <= OffsetValue(images[j][1])

\* C1: the bootloader entry of the layout is at 0x1000 for the families esp32 and
\* esp32s2, at 0x2000 for esp32p4 and at 0x0000 for every other family, an unset
\* one included.
C1_BootloaderOffset ==
    Built =>
        /\ FLASH_EXTRA_IMAGES[1][2] = get_bootloader_image(variants_dir)
        /\ FLASH_EXTRA_IMAGES[1][1] =
             IF Lower(BoardGet("build.mcu", "")) \in {"esp32", "esp32s2"} THEN "0x1000"
             ELSE IF Lower(BoardGet("build.mcu", "")) = "esp32p4" THEN "0x2000"
             ELSE "0x0000"

C1_Witness ==
    /\ Built
    /\ BoardGet("build.mcu", "") = "esp32p4"
    /\ FLASH_EXTRA_IMAGES[1][1] = "0x2000"

C6_ExtrasAfterFixed ==
    Built =>
        /\ Len(FLASH_EXTRA_IMAGES) >= 3 + Len(BoardExtraImages)
        /\ basename(FLASH_EXTRA_IMAGES[2][2]) = "partitions.bin"
        /\ basename(FLASH_EXTRA_IMAGES[3][2]) = "boot_app0.bin"
        /\ \A i \in 1..Len(BoardExtraImages) :
              FLASH_EXTRA_IMAGES[3 + i] =
                  <<BoardExtraImages[i][1], join(FRAMEWORK_DIR, BoardExtraImages[i][2])>>

C6_Witness ==
    /\ Built
    /\ Len(BoardExtraImages) = 2
    /\ BoardExtraImages[1] # BoardExtraImages[2]
    /\ FLASH_EXTRA_IMAGES[4][1] = BoardExtraImages[1][1]
    /\ FLASH_EXTRA_IMAGES[5][1] = BoardExtraImages[2][1]

----------------------------------------------------------------------------
(* Layout handed to the upload commands: claims C2, C3, C5 (specification Spec) *)

\* the offset the application is meant to be written at
AppOffset == IF ESP32_APP_OFFSET = <<>> THEN "0x10000" ELSE ESP32_APP_OFFSET[1]

Transfers == {i \in DOMAIN executed : executed[i].kind = "transfer"}

\* the image arguments of an esptool command line: what follows "--flash_size detect"
EsptoolImageArgs(cmd) == SubSeq(cmd, Len(EsptoolFlags) + 3, Len(cmd))

\* C2: for mcu esp32 with no partitions name, no extra images and no upload
\* offset, the serial upload command is given exactly (0x1000, bootloader),
\* (0x8000, partitions), (0xe000, boot_stub), (0x10000, application), in order.
C2_Esp32FourEntries ==
    \A i \in Transfers :
        ( /\ upload_protocol = "esptool"
          /\ target = "upload"
          /\ BoardGet("build.mcu", "") = "esp32"
          /\ partitions_name = <<>>
          /\ BoardExtraImages = <<>>
          /\ ESP32_APP_OFFSET = <<>> )
        => EsptoolImageArgs(executed[i].cmd) =
             << <<"0x1000">>, subst(get_bootloader_image(variants_dir)),
                <<"0x8000">>, join(BUILD_DIR, <<"partitions.bin">>),
                <<"0xe000">>, join(fwpartitions_dir, <<"boot_app0.bin">>),
                <<"0x10000">>, SOURCE >>

\* C3: the esptool write_flash command, the debugger's program_esp command and
\* the printed upload summary all place the application at ESP32_APP_OFFSET, and
\* at 0x10000 when that variable is unset.
C3_AppOffsetEverywhere ==
    /\ \A i \in Transfers :
          (upload_protocol = "esptool" /\ target # "uploadfs") =>
              LET cmd == executed[i].cmd
              IN cmd[Len(cmd) - 1] = <<AppOffset>> /\ cmd[Len(cmd)] = SOURCE
    /\ \A i \in Transfers :
          (upload_protocol = "esp-prog" /\ target # "uploadfs") =>
              \E k \in DOMAIN executed[i].cmd :
                  executed[i].cmd[k] =
                      <<"program_esp {{">> \o SOURCE \o <<"}}", AppOffset, "verify">>
    /\ out # <<>> =>
          out[Len(out)].offset = AppOffset /\ out[Len(out)].filepath = SOURCE

\* the size of the flash chip the board declares
FlashSizeBytes ==
    CASE BoardGet("upload.flash_size", "4MB") = "4MB" -> 4194304

\* two entries at one offset overlap whatever their sizes, and an entry that
\* starts at or beyond the end of the flash exceeds it
InvalidLayout ==
    LET layout == FLASH_EXTRA_IMAGES \o << <<AppOffset, SOURCE>> >>
    IN \/ \E i, j \in DOMAIN layout :
             i # j /\ OffsetValue(layout[i][1]) = OffsetValue(layout[j][1])
       \/ \E i \in DOMAIN layout : OffsetValue(layout[i][1]) >= FlashSizeBytes

\* C5: a layout with overlapping entries, or with an entry beyond the declared
\* flash size, is rejected before any device I/O: no port action, erase or
\* transfer is run for it and the invocation does not succeed.
C5_InvalidLayoutRejected ==
    (Built /\ InvalidLayout) => (executed = <<>> /\ status # "done")

\* C11: whenever the variant-specific bootloader file exists the framework script
\* puts that path in the bootloader entry of the layout, whether or not the ELF
\* a bootloader could be generated from exists, and registers no command that
\* generates $BUILD_DIR/bootloader.bin
VariantBootloaderExists == isfile(subst(variant_bootloader(variants_dir)))
BootloaderElfExists == isfile(subst(bootloader_elf))
GenerationRegistered == join(<<"$BUILD_DIR">>, <<"bootloader.bin">>) \in commands
C11_VariantBootloaderPreferred ==
    (Built /\ VariantBootloaderExists) =>
        /\ FLASH_EXTRA_IMAGES[1][2] = variant_bootloader(variants_dir)
        /\ ~GenerationRegistered
C11_Witness ==
    /\ Built /\ VariantBootloaderExists /\ BootloaderElfExists
    /\ BoardHas("build.arduino.custom_bootloader")
    /\ FLASH_EXTRA_IMAGES[1][2] = variant_bootloader(variants_dir)

\* C12: a resolved partition table is a file that exists: when none of the
\* candidates of the configured name (or of the default) is on disk, the
\* resolver does not hand back a path
C12_ResolvedPathExists ==
    Resolved => isfile(subst(PARTITIONS_TABLE_CSV))

----------------------------------------------------------------------------
(* Upload dispatch: claims C13 - C20 (specification Spec) *)

Said(msg) == \E i \in DOMAIN err : err[i] = msg
Ran(kind) == {i \in DOMAIN executed : executed[i].kind = kind}
\* env.AutodetectUploadPort() looked for a port and found none
DetectionFailed == \E i \in Ran("autodetect") : executed[i].cmd = <<<<>>>>
Position(actions, name) == {i \in DOMAIN actions : actions[i] = name}

\* C13: with the esptool protocol, no upload port configured and no port found by
\* autodetection, the run fails with the missing-port error and no transfer
\* command is executed; BeforeUpload stands before the transfer command in the
\* protocol's upload actions
C13_NoPortNoTransfer ==
    upload_protocol = "esptool" =>
        /\ DetectionFailed =>
              /\ status = "failed" /\ pc = "exit"
              /\ Said("Error: Please specify upload_port")
              /\ Transfers = {}
        /\ \A i \in Position(upload_actions, "UPLOADCMD") :
              \E j \in Position(upload_actions, "BeforeUpload") : j < i
C13_Witness ==
    /\ upload_protocol = "esptool" /\ target = "upload"
    /\ DetectionFailed /\ status = "failed" /\ Transfers = {}

\* C14: a configured port that is an IPv4 address or a .local host name, with a
\* configured protocol other than espota, switches the protocol to espota and
\* writes the warning before any upload command is built; the upload command
\* built afterwards and every transfer run are espota's
Selected == pc \notin {"resolve", "framework", "main"}
OtaHostConfigured == UPLOAD_PROTOCOL # "espota" /\ MatchesOtaHost(UPLOAD_PORT)
EspotaCmd(cmd) == Len(cmd) >= 2 /\ cmd[2] = espota_script
C14_SwitchedToEspota ==
    /\ ~Selected => (UPLOADCMD = <<>> /\ upload_actions = <<>>)
    /\ (Selected /\ OtaHostConfigured) =>
          /\ upload_protocol = "espota"
          /\ Said("Warning! upload_protocol is switched to espota")
          /\ UPLOADCMD # <<>> =>
                (UPLOADER = espota_script /\ EspotaCmd(ExpandCmd(UPLOADCMD)))
          /\ \A i \in Transfers : EspotaCmd(executed[i].cmd)
C14_Witness ==
    /\ UPLOAD_PROTOCOL = "esptool" /\ UPLOAD_PORT = "urack.local"
    /\ upload_protocol = "espota" /\ target = "upload"
    /\ Transfers # {} /\ status = "done"

\* C15: in an esptool firmware upload the image arguments of write_flash are one
\* offset-file pair per entry of FLASH_EXTRA_IMAGES, the offset directly before
\* its file, in layout order and nothing else but the application pair, whose
\* file is directly preceded by the application's own offset
C15_OnePairPerEntry ==
    \A i \in Transfers :
        (upload_protocol = "esptool" /\ target # "uploadfs") =>
            LET args == EsptoolImageArgs(executed[i].cmd)
                n == Len(FLASH_EXTRA_IMAGES)
            IN /\ Len(args) = 2 * (n + 1)
               /\ \A j \in 1..n :
                     /\ args[2 * j - 1] = <<FLASH_EXTRA_IMAGES[j][1]>>
                     /\ args[2 * j] = subst(FLASH_EXTRA_IMAGES[j][2])
               /\ args[2 * n + 1] = <<AppOffset>>
               /\ args[2 * n + 2] = SOURCE

\* C16: the espota transfer command names the uploader, its flags and host, and
\* -f with the source file, and nothing else: no offset and no file of any
\* FLASH_EXTRA_IMAGES entry occurs in it, whatever the layout holds
LayoutTokens ==
    UNION { {<<FLASH_EXTRA_IMAGES[j][1]>>, subst(FLASH_EXTRA_IMAGES[j][2])} :
              j \in DOMAIN FLASH_EXTRA_IMAGES }
C16_EspotaSourceOnly ==
    \A i \in Transfers :
        upload_protocol = "espota" =>
            LET cmd == executed[i].cmd
            IN /\ cmd[Len(cmd)] = SOURCE
               /\ cmd[Len(cmd) - 1] = <<"-f">>
               /\ \A k \in DOMAIN cmd : cmd[k] \notin LayoutTokens
               /\ \A k \in 3..(Len(cmd) - 2) :
                     cmd[k] \in {<<"--debug">>, <<"--progress">>, <<"-i">>, <<"--spiffs">>,
                                 <<UPLOAD_PORT>>}
C16_Witness ==
    /\ upload_protocol = "espota" /\ target = "upload"
    /\ Transfers # {} /\ status = "done"
    /\ Len(FLASH_EXTRA_IMAGES) > 3

\* C17: with the espota protocol and no upload port or host configured, the
\* invocation aborts as failed: no upload action is registered and no transfer
\* command is run
NoOtaHost == Said("Error: Please specify IP address or host name")
C17_NoHostAborts ==
    (upload_protocol = "espota" /\ NoOtaHost) =>
        /\ upload_actions = <<>>
        /\ Transfers = {}
        /\ status = "failed"

\* C18: a protocol name that is none of espota, esptool, dfu, custom or a debug
\* tool of the board is a fatal error: once the protocol branches have run the
\* invocation has ended as failed, and no transfer command is run by upload,
\* uploadfs or erase_upload
UnknownProtocolName ==
    /\ upload_protocol \notin {"espota", "esptool", "dfu", "custom"}
    /\ upload_protocol \notin DOMAIN debug_tools
Configured == pc \in {"targets", "run", "exit"}
C18_UnknownProtocolFatal ==
    (Configured /\ UnknownProtocolName /\ target \in {"upload", "uploadfs", "erase_upload"}) =>
        /\ pc = "exit" /\ status = "failed"
        /\ Transfers = {}

\* C19 as stated: under the esptool protocol and under a debug tool of the board
\* alike, BeforeUpload stands before the transfer command in the upload actions
\* and a transfer is run only with a port that was configured or detected
DebugToolProtocol ==
    /\ upload_protocol \notin {"espota", "esptool", "dfu"}
    /\ upload_protocol \in DOMAIN debug_tools
DetectionFirst ==
    /\ \A i \in Position(upload_actions, "UPLOADCMD") :
          \E j \in Position(upload_actions, "BeforeUpload") : j < i
    /\ \A i \in Transfers :
          /\ UPLOAD_PORT # ""
          /\ \A j \in Ran("autodetect") : j < i
C19_DetectionBeforeTransfer ==
    (Configured /\ (upload_protocol = "esptool" \/ DebugToolProtocol)) => DetectionFirst

\* C19 (amended): port detection before the transfer is performed for the esptool
\* protocol only. Its upload actions run BeforeUpload, whose autodetection runs
\* when no port is configured, before the transfer command. The upload actions
\* of a debug tool are the transfer command alone: under upload and uploadfs
\* openocd is run first, with no port detection, whether or not a port is
\* configured.
C19_DetectionEsptoolOnly ==
    /\ (Configured /\ upload_protocol = "esptool") => DetectionFirst
    /\ (Configured /\ DebugToolProtocol) =>
          /\ upload_actions = <<"UPLOADCMD">>
          /\ target \in {"upload", "uploadfs"} =>
                /\ Ran("autodetect") = {}
                /\ \A i \in Transfers : i = 1
C19_Witness ==
    /\ DebugToolProtocol /\ target = "upload" /\ UPLOAD_PORT = ""
    /\ Transfers = {1} /\ status = "done"

\* C20: a step of BeforeUpload that gets past port detection touches the port at
\* 1200 baud exactly when the board sets upload.use_1200bps_touch, and waits for
\* a new port exactly when it sets upload.wait_for_upload_port, the port that
\* appears then replacing the upload port; with neither set the configured or
\* detected port stays the upload port and the next action of the target follows
Logged == SubSeq(executed', Len(executed) + 1, Len(executed'))
LoggedKinds == {Logged[i].kind : i \in DOMAIN Logged}
DetectionPassed == ~(status' = "failed" /\ err'[Len(err')] = "Error: Please specify upload_port")
C20_OptionalPreflight ==
    [][(Running("BeforeUpload") /\ DetectionPassed) =>
         LET touch == BoardGet("upload.use_1200bps_touch", FALSE)
             wait == BoardGet("upload.wait_for_upload_port", FALSE)
             detected == IF UPLOAD_PORT # "" THEN UPLOAD_PORT ELSE Logged[1].cmd[1][1]
         IN /\ ("touch" \in LoggedKinds) <=> touch
            /\ ("wait" \in LoggedKinds) <=> wait
            /\ (wait /\ status' # "failed") => UPLOAD_PORT' \in NewSerialPorts
            /\ ~wait => UPLOAD_PORT' = detected
            /\ (~touch /\ ~wait) =>
                  /\ LoggedKinds \subseteq {"autodetect"}
                  /\ todo' = Tail(todo)
                  /\ status' = status
       ]_vars
C20_Witness ==
    /\ upload_protocol = "esptool" /\ target = "upload"
    /\ BoardGet("upload.use_1200bps_touch", FALSE)
    /\ BoardGet("upload.wait_for_upload_port", FALSE)
    /\ Ran("touch") # {} /\ Ran("wait") # {}
    /\ UPLOAD_PORT \in NewSerialPorts
    /\ Transfers # {}

----------------------------------------------------------------------------
(* Erase targets and filesystem upload: claims C21 - C23 (specification Spec) *)

\* an erase command without image arguments, run once a port is known
EraseWithoutImages(i) ==
    LET cmd == executed[i].cmd
    IN /\ cmd[Len(cmd)] = <<"erase_flash">>
       /\ \A k \in DOMAIN cmd : cmd[k] \notin LayoutTokens \cup {SOURCE, <<AppOffset>>}
       /\ UPLOAD_PORT # ""
       /\ \A j \in Ran("autodetect") : j < i

\* C21 as stated: the erase target runs the erase sub-command of the uploader
\* of the selected protocol, with no image argument, after port detection
C21_EraseResolvedTool ==
    \A i \in Ran("erase") :
        target = "erase" =>
            /\ executed[i].cmd[2] = UPLOADER
            /\ EraseWithoutImages(i)

\* C21 (amended): the erase target runs esptool.py ($OBJCOPY) with --chip,
\* --port and erase_flash whatever upload protocol is selected, also when that
\* protocol's uploader is another tool; the command has no offset-file pair and
\* no application image, and it runs after port detection
C21_EraseEsptool ==
    \A i \in Ran("erase") :
        target = "erase" =>
            /\ executed[i].cmd =
                  << <<"$PYTHONEXE">>, OBJCOPY, <<"--chip">>, <<mcu>>, <<"--port">>,
                     <<UPLOAD_PORT>>, <<"erase_flash">> >>
            /\ EraseWithoutImages(i)
C21_Witness ==
    /\ target = "erase" /\ upload_protocol = "espota" /\ UPLOADER = espota_script
    /\ Ran("erase") # {} /\ status = "done"

\* C22: under erase_upload everything BeforeUpload does comes first, then one
\* erase_flash, then the upload command: a transfer is run only after an erase
\* that ended well, and none is run when detection, the wait for the port or
\* the erase failed
C22_EraseUploadOrder ==
    target = "erase_upload" =>
        /\ \A i \in Transfers :
              /\ \E j \in Ran("erase") : j < i
              /\ \A j \in DOMAIN executed : j > i => executed[j].kind = "transfer"
        /\ \A j \in Ran("erase") :
              \A k \in Ran("autodetect") \cup Ran("touch") \cup Ran("wait") : k < j
        /\ \A j \in Ran("erase") : UPLOAD_PORT # ""
        /\ (status = "failed" /\ executed # <<>>
             /\ executed[Len(executed)].kind \in {"autodetect", "touch", "wait", "erase"})
              => Transfers = {}
        /\ Cardinality(Ran("erase")) <= 1 /\ Cardinality(Transfers) <= 1
C22_Witness ==
    /\ target = "erase_upload" /\ upload_protocol = "esptool"
    /\ Ran("autodetect") = {1}
    /\ Ran("erase") # {} /\ Transfers = {Len(executed)}
    /\ status = "done"

\* C23: under uploadfs the transfer command of the esptool protocol and of a
\* debug tool names no offset and no file of FLASH_EXTRA_IMAGES and not the
\* application offset: the only image is the source, written at $FS_START
ProgramEsp(cmd) == {k \in DOMAIN cmd : cmd[k] # <<>> /\ cmd[k][1] = "program_esp {{"}
C23_UploadfsSourceOnly ==
    \A i \in Transfers :
        target = "uploadfs" =>
            LET cmd == executed[i].cmd
            IN /\ upload_protocol = "esptool" =>
                     /\ EsptoolImageArgs(cmd) = <<FS_START, SOURCE>>
                     /\ \A k \in DOMAIN cmd : cmd[k] \notin LayoutTokens \cup {<<AppOffset>>}
               /\ DebugToolProtocol =>
                     /\ Cardinality(ProgramEsp(cmd)) = 1
                     /\ \A k \in ProgramEsp(cmd) :
                           /\ FS_START # <<>>
                           /\ cmd[k] = <<"program_esp {{">> \o SOURCE
                                          \o <<"}}">> \o FS_START \o <<"verify">>

----------------------------------------------------------------------------
(* The tinyuf2 image: claim C24 (specification SpecLayout) *)

Tinyuf2Entries(images) == {i \in DOMAIN images : basename(images[i][2]) = "tinyuf2.bin"}
\* the entries the script appends before it looks at the tinyuf2 image
FixedAndDeclared == 3 + Len(BoardExtraImages)
Tinyuf2Triggered ==
    \/ basename(partitions_name) = "tinyuf2.csv"
    \/ BoardHas("upload.arduino.tinyuf2_image")
Tinyuf2Exists == isfile(subst(tinuf2_image))
Tinyuf2Added == Len(FLASH_EXTRA_IMAGES) = FixedAndDeclared + 1

\* C24 as stated: the built layout has at most one entry with basename
\* tinyuf2.bin, and the tinyuf2 image is added only when it is triggered and
\* its file exists
C24_AtMostOneTinyuf2 ==
    Built =>
        /\ Cardinality(Tinyuf2Entries(FLASH_EXTRA_IMAGES)) <= 1
        /\ Len(FLASH_EXTRA_IMAGES) \in {FixedAndDeclared, FixedAndDeclared + 1}
        /\ Tinyuf2Added => (Tinyuf2Triggered /\ Tinyuf2Exists)

\* C24 (amended): layout construction appends at most one tinyuf2 entry, after
\* the fixed and the declared entries, exactly when the partitions name ends
\* with tinyuf2.csv or upload.arduino.tinyuf2_image is set, the image file
\* exists, and no entry of the layout already has the basename tinyuf2.bin;
\* otherwise the layout is left as it was. Entries named tinyuf2.bin that the
\* board declares itself are all kept, so the layout holds as many of them as
\* the board declares, or one more than none.
C24_AtMostOneAdded ==
    Built =>
        LET declared == SubSeq(FLASH_EXTRA_IMAGES, 1, FixedAndDeclared)
        IN /\ Len(FLASH_EXTRA_IMAGES) \in {FixedAndDeclared, FixedAndDeclared + 1}
           /\ declared = FrameworkExtraImages
           /\ Tinyuf2Added <=>
                 (Tinyuf2Triggered /\ Tinyuf2Exists /\ Tinyuf2Entries(declared) = {})
           /\ Tinyuf2Added =>
                 FLASH_EXTRA_IMAGES[FixedAndDeclared + 1][2] = tinuf2_image
           /\ Cardinality(Tinyuf2Entries(FLASH_EXTRA_IMAGES)) <=
                 IF Tinyuf2Entries(declared) = {} THEN 1
                 ELSE Cardinality(Tinyuf2Entries(declared))
C24_Witness ==
    /\ Built /\ Tinyuf2Triggered /\ Tinyuf2Exists
    /\ Cardinality(Tinyuf2Entries(FLASH_EXTRA_IMAGES)) = 1
    /\ Tinyuf2Entries(BoardExtraImages) # {}
    /\ ~Tinyuf2Added

====
